---------------------------- MODULE Spec2Model ----------------------------
(***************************************************************************)
(* A model of repose.py (Process Holter): heart rate from the ECG,         *)
(* respiratory rate from the accelerometer sum, body position and angles   *)
(* from the gravity-normalised accelerometer, and the assembly of the      *)
(* 1 Hz output table.                                                      *)
(*                                                                         *)
(* Numbers.  Accelerations are rationals num/den; a sample read from the   *)
(* frame in thousandths of g has den = 1000.  Timestamps are integer ticks *)
(* after the recording start, TicksPerSec ticks to the second; the start   *)
(* is on a whole second (the EDF header stores hh.mm.ss).  A float that is *)
(* not-a-number, and a missing table cell, is the value NaN.               *)
(***************************************************************************)
EXTENDS Integers, Sequences, FiniteSets, TLC

VARIABLES
    pc,           \* position in main() / in the function under analysis
    args,         \* the arguments main() passes to calculate_hr and calculate_rr
    sample_rate,  \* channel label -> sampling frequency (Hz), built by get_data
    ecg,          \* the ECG frame of get_data: native rate, length, waveform
    acc,          \* the accelerometer frame of get_data: rate, length, rows
    hr,           \* calculate_hr: the frame hr (timestamp -> HR)
    hr_loc,       \* calculate_hr: hr_win, the range of the loop, i, beats, hr_mean
    hr_log,       \* history: the rows calculate_hr has built (new_row), in order
    rr,           \* calculate_rr: the frame rr (timestamp -> RR)
    rr_loc,       \* calculate_rr: rr_win, the range of the loop, i, rf
    rr_log,       \* history: the rows calculate_rr has built (new_row), in order
    acc_1hz,      \* main: acc after acc.resample('S').mean()
    out,          \* main: the output table
    err,          \* the exception that ended the run, "" when none
    rows,         \* rows of acc that body_pos_and_angles has iterated over
    time,         \* body_pos_and_angles: local list time
    pos,          \* body_pos_and_angles: local list pos
    pos_name,     \* body_pos_and_angles: local list pos_name
    thetas,       \* body_pos_and_angles: local list thetas
    phis          \* body_pos_and_angles: local list phis

vars == <<pc, args, sample_rate, ecg, acc, hr, hr_loc, hr_log, rr, rr_loc, rr_log,
          acc_1hz, out, err, rows, time, pos, pos_name, thetas, phis>>

hrvars == <<hr, hr_loc, hr_log>>

rrvars == <<rr, rr_loc, rr_log>>

inputs == <<args, ecg, acc>>

posvars == <<rows, time, pos, pos_name, thetas, phis>>

-----------------------------------------------------------------------------
(* Values *)

NaN == [kind |-> "nan"]

IsNaN(v) == v.kind = "nan"

Abs(n) == IF n < 0 THEN -n ELSE n

Sign(n) == IF n > 0 THEN 1 ELSE IF n < 0 THEN -1 ELSE 0

\* class Pos(enum.Enum): label -> value
Pos == [SUPINE |-> 0, PRONE |-> 1, TILT |-> 2, UPRIGHT |-> 3,
        LEFT_SIDE |-> 4, RIGHT_SIDE |-> 5]

-----------------------------------------------------------------------------
(* body_pos_and_angles *)

\* the thresholds of the decision tree, in thousandths of g
YSide == 500

ZSupine == -966

XUpright == 966

XNoPhi == 710

\* np.clip(v, -1., 1.) on the rational v/den
Clip(v, den) == IF v < -den THEN -den ELSE IF v > den THEN den ELSE v

\* v/den > t/1000 and v/den < t/1000, for den > 0
Gt(v, den, t) == v * 1000 > t * den

Lt(v, den, t) == v * 1000 < t * den

\* np.arcsin(acc_x)*180/np.pi: the angle is kept as the term arcsin(num/den) in
\* degrees; it is a number for every clipped argument
Theta(x, den) == [kind |-> "deg", fn |-> "arcsin", sgn |-> 1, num |-> x, den |-> den]

\* np.sign(np.arcsin(-acc_y))*np.arccos(-acc_z)*180/np.pi: arcsin is odd and
\* increasing, so the sign is that of -acc_y
Phi(y, z, den) ==
    [kind |-> "deg", fn |-> "arccos", sgn |-> Sign(-y), num |-> -z, den |-> den]

\* Position with the side test made non-strict (|y| >= 0.5)
PositionSideNonStrict(x, y, z, den) ==
    IF ~Lt(Abs(y), den, YSide)
    THEN IF y < 0 THEN "LEFT_SIDE" ELSE "RIGHT_SIDE"
    ELSE IF z > x /\ z > y THEN "PRONE"
    ELSE IF Lt(z, den, ZSupine) THEN "SUPINE"
    ELSE IF Gt(x, den, XUpright) THEN "UPRIGHT"
    ELSE "TILT"

\* the decision tree for the position, on a clipped sample
Position(x, y, z, den) ==
    IF Gt(Abs(y), den, YSide)
    THEN IF y < 0 THEN "LEFT_SIDE" ELSE "RIGHT_SIDE"
    ELSE IF z > x /\ z > y THEN "PRONE"
    ELSE IF Lt(z, den, ZSupine) THEN "SUPINE"
    ELSE IF Gt(x, den, XUpright) THEN "UPRIGHT"
    ELSE "TILT"

\* what thetas receives: nan in the side branch, theta otherwise
TiltOf(x, y, den) ==
    IF Gt(Abs(y), den, YSide) THEN NaN ELSE Theta(x, den)

\* RotationOf with the test made non-strict (acc_x >= 0.71)
RotationOfNonStrict(x, y, z, den) ==
    IF ~Lt(x, den, XNoPhi) THEN NaN ELSE Phi(y, z, den)

\* what phis receives: nan when acc_x > 0.71, phi otherwise
RotationOf(x, y, z, den) ==
    IF Gt(x, den, XNoPhi) THEN NaN ELSE Phi(y, z, den)

\* one iteration of the loop over acc.iterrows(), for the row r at label t
RowResult(r, t) ==
    LET acc_x == Clip(r.x, r.den)
        acc_y == Clip(r.y, r.den)
        acc_z == Clip(r.z, r.den)
        position == Position(acc_x, acc_y, acc_z, r.den)
    IN  [time |-> t,
         pos |-> Pos[position],
         pos_name |-> position,
         theta |-> TiltOf(acc_x, acc_y, r.den),
         phi |-> RotationOf(acc_x, acc_y, acc_z, r.den)]

-----------------------------------------------------------------------------
(* Frames: a frame is a function from its index labels (ticks) to values.   *)

ResampleRate == 100

\* ticks per second: a multiple of the 100 Hz grid and of every rate in AccRates
TicksPerSec == 3 * ResampleRate

EmptyFrame == [t \in {} |-> NaN]

SetMax(S) == CHOOSE m \in S : \A t \in S : t <= m

SetMin(S) == CHOOSE m \in S : \A t \in S : m <= t

\* pd.concat([frame, new_row], ignore_index=False) for a new_row of one label
ConcatRow(f, t, v) == [u \in DOMAIN f \cup {t} |-> IF u = t THEN v ELSE f[u]]

\* Pad without the forward fill: a whole second with no row of its own is nan
PadNoFill(f) ==
    IF DOMAIN f = {} THEN f
    ELSE LET lo == SetMin(DOMAIN f) \div TicksPerSec
             hi == SetMax(DOMAIN f) \div TicksPerSec
         IN  [g \in {s * TicksPerSec : s \in lo..hi} |->
                 IF g \in DOMAIN f THEN f[g] ELSE NaN]

\* frame.resample('S').pad(): the index becomes every whole second from the
\* floor of the first label to the floor of the last; each takes the value of
\* the last label at or before it (reindex with method='pad'), nan when there
\* is none.  A label that is not on a whole second is not in the result.
Pad(f) ==
    IF DOMAIN f = {} THEN f
    ELSE LET lo == SetMin(DOMAIN f) \div TicksPerSec
             hi == SetMax(DOMAIN f) \div TicksPerSec
         IN  [g \in {s * TicksPerSec : s \in lo..hi} |->
                 LET before == {t \in DOMAIN f : t <= g}
                 IN  IF before = {} THEN NaN ELSE f[SetMax(before)]]

\* RangeLen with the stop included
RangeLenInclusive(stop, step) == IF stop >= 0 THEN stop \div step + 1 ELSE 0

\* range(0, stop, step) for step > 0: the number of values it yields
RangeLen(stop, step) == IF stop > 0 THEN (stop - 1) \div step + 1 ELSE 0

\* a[i:i+win] on an array of length n: the positions the slice holds
SliceLen(n, i, win) ==
    LET hi == IF i + win < n THEN i + win ELSE n
    IN  IF hi > i THEN hi - i ELSE 0

\* the value num/den
Frac(num, den) == [kind |-> "num", num |-> num, den |-> den]

RECURSIVE SumSeq(_)
SumSeq(q) == IF q = <<>> THEN 0 ELSE q[1] + SumSeq(Tail(q))

\* the k-th smallest (k from 0) entry of the sequence w
KthSmallest(w, k) ==
    CHOOSE v \in {w[j] : j \in DOMAIN w} :
        /\ Cardinality({j \in DOMAIN w : w[j] < v}) <= k
        /\ k < Cardinality({j \in DOMAIN w : w[j] <= v})

-----------------------------------------------------------------------------
(* calculate_hr *)

\* the resampled ECG: ecg.resample('0.01S').mean() has one row per 10 ms bin
\* from the first sample to the last
ResampledLen(e) == (((e.rate * e.secs - 1) * ResampleRate) \div e.rate) + 1

\* ecg.index[k] of the resampled ECG
EcgIndex(k) == k * (TicksPerSec \div ResampleRate)

\* ecg_processed = -np.diff(ecg_filt); np.append(ecg_processed, 0) is dropped
ProcessedLen(e) == ResampledLen(e) - 1

\* ecg_processed[p]: the band-passed, differentiated waveform of the recording
Processed(e, p) == IF p \in DOMAIN e.wave THEN e.wave[p] ELSE 0

\* SetEcgRate that overwrites every entry of the map
SetEveryRate(m) == [c \in DOMAIN m |-> ResampleRate]

\* sample_rate['ECG'] = 100
SetEcgRate(m) == [m EXCEPT !.ECG = ResampleRate]

\* ecg_sample = ecg_processed[i:i+hr_win], as a sequence (position j at j+1)
EcgSample(e, i, win) ==
    [j \in 1..SliceLen(ProcessedLen(e), i, win) |-> Processed(e, i + j - 1)]

\* 100 * np.percentile(w, 99): linear interpolation between the order
\* statistics around position (n-1)*0.99
Percentile99x100(w) ==
    LET h == (Len(w) - 1) * 99
        lo == h \div 100
        fr == h % 100
        a == KthSmallest(w, lo)
        b == IF fr = 0 THEN a ELSE KthSmallest(w, lo + 1)
    IN  100 * a + fr * (b - a)

\* thresh = np.percentile(ecg_sample, 99)*0.75
Thresh(w) == Frac(3 * Percentile99x100(w), 400)

\* a < t, for an integer a and a fraction t with t.den > 0
LtFrac(a, t) == a * t.den < t.num

GtFrac(a, t) == a * t.den > t.num

\* if ecg_sample[j] < thresh < ecg_sample[j+1]  (j from 0)
IsBeat(w, t, j) == LtFrac(w[j + 1], t) /\ GtFrac(w[j + 2], t)

\* for j in range(len(ecg_sample)-1): ... beats.append(j)
Beats(w, t) ==
    SelectSeq([k \in 1..(Len(w) - 1) |-> k - 1], LAMBDA j : IsBeat(w, t, j))

\* np.diff(beats)
Diff(q) == [k \in 1..(Len(q) - 1) |-> q[k + 1] - q[k]]

\* HrMean that takes the mean of the differences of a single beat to be 0
HrMeanOneBeat(beats, rate) ==
    IF Len(beats) = 0 THEN NaN
    ELSE Frac(60 * rate * (Len(beats) - 1), beats[Len(beats)] - beats[1])

\* hr_mean = 60*1/(np.mean(np.diff(beats)/sample_rate['ECG'])): the mean of an
\* empty array is nan (a RuntimeWarning, no exception), and 60/nan is nan
HrMean(beats, rate) ==
    LET d == Diff(beats)
    IN  IF Len(d) = 0 THEN NaN ELSE Frac(60 * rate * Len(d), SumSeq(d))

\* lines 104-114: the state before the loop
HRBegin ==
    /\ pc = "call_hr"
    /\ sample_rate' = SetEcgRate(sample_rate)
    /\ hr' = EmptyFrame
    /\ hr_loc' = [hr_win |-> args.hr_window_length * sample_rate'.ECG,
                  stop |-> ProcessedLen(ecg) - args.hr_window_length * sample_rate'.ECG,
                  step |-> sample_rate'.ECG * args.hr_calc_every,
                  k |-> 0, i |-> -1, beats |-> <<>>, hr_mean |-> NaN]
    /\ pc' = "hr_loop"
    /\ UNCHANGED <<inputs, hr_log, rrvars, acc_1hz, out, err, posvars>>

\* lines 116-126: one iteration of the loop, for the next i of the range
HRWindow ==
    /\ pc = "hr_loop"
    /\ hr_loc.k < RangeLen(hr_loc.stop, hr_loc.step)
    /\ LET i == hr_loc.k * hr_loc.step
           ecg_sample == EcgSample(ecg, i, hr_loc.hr_win)
           thresh == Thresh(ecg_sample)
           beats == Beats(ecg_sample, thresh)
           hr_mean == HrMean(beats, sample_rate.ECG)
       IN  IF i + hr_loc.hr_win >= ResampledLen(ecg)
           THEN /\ pc' = "raised"
                /\ err' = "IndexError"
                /\ UNCHANGED <<hr, hr_loc, hr_log>>
           ELSE /\ hr' = Pad(ConcatRow(hr, EcgIndex(i + hr_loc.hr_win), hr_mean))
                /\ hr_loc' = [hr_loc EXCEPT !.k = @ + 1, !.i = i, !.beats = beats,
                                            !.hr_mean = hr_mean]
                /\ hr_log' = Append(hr_log, [i |-> i, n |-> Len(ecg_sample),
                                             pos |-> i + hr_loc.hr_win,
                                             at |-> EcgIndex(i + hr_loc.hr_win),
                                             beats |-> beats, value |-> hr_mean])
                /\ UNCHANGED <<pc, err>>
    /\ UNCHANGED <<sample_rate, inputs, rrvars, acc_1hz, out, posvars>>

\* line 127: the range is exhausted, return hr
HRReturn ==
    /\ pc = "hr_loop"
    /\ hr_loc.k >= RangeLen(hr_loc.stop, hr_loc.step)
    /\ pc' = "call_rr"
    /\ UNCHANGED <<sample_rate, inputs, hrvars, rrvars, acc_1hz, out, err, posvars>>

-----------------------------------------------------------------------------
(* spectrum and calculate_rr *)

\* acc rows repeat acc.pat; a row is [x, y, z] in thousandths of g
AccRow(a, p) == a.pat[(p % Len(a.pat)) + 1]

AccLen(a) == a.rate * a.secs

\* acc.index[k]
AccIndex(a, k) == k * (TicksPerSec \div a.rate)

\* acc['total'] = X + Y + Z of the raw signal; raw units are thousandths of the
\* median magnitude grav, which is what the normalised axes are in
AccTotal(a, p) == AccRow(a, p).x + AccRow(a, p).y + AccRow(a, p).z

\* acc_tot[i:i+rr_win]
AccSlice(a, i, win) ==
    [j \in 1..SliceLen(AccLen(a), i, win) |-> AccTotal(a, i + j - 1)]

\* 2 * np.median(w): the middle entry, or the mean of the two middle entries
Median2(w) ==
    IF Len(w) % 2 = 1 THEN 2 * KthSmallest(w, (Len(w) - 1) \div 2)
    ELSE KthSmallest(w, Len(w) \div 2 - 1) + KthSmallest(w, Len(w) \div 2)

\* 2 * np.subtract(w, np.median(w))
Windowed2(w) == [j \in DOMAIN w |-> 2 * w[j] - Median2(w)]

\* 2*cos(a * 30 degrees) at the angles where it is an integer
TwoCosAt ==
    [a \in {0, 2, 3, 4, 6, 8, 9, 10} |->
        CASE a = 0 -> 2
          [] a \in {2, 10} -> 1
          [] a \in {3, 9} -> 0
          [] a \in {4, 8} -> -1
          [] a = 6 -> -2]

\* 2*cos(2*pi*j/n), for the lengths n whose angles are all in TwoCosAt
FftLengths == {2, 3, 4, 6}

TwoCos(n, j) == TwoCosAt[((j % n) * (12 \div n)) % 12]

\* the sum of f[e] over e in S
RECURSIVE SumOver(_, _)
SumOver(S, f) ==
    IF S = {} THEN 0
    ELSE LET e == CHOOSE e \in S : TRUE IN f[e] + SumOver(S \ {e}, f)

\* 2 * |np.fft.rfft(sig)[k]|^2 = sum over m, n of sig[m]*sig[n]*2cos(2 pi k (m-n)/N)
Power2(sig, k) ==
    LET N == Len(sig)
        term == [mn \in (1..N) \X (1..N) |->
                    sig[mn[1]] * sig[mn[2]] * TwoCos(N, k * (mn[1] - mn[2] + N))]
    IN  SumOver(DOMAIN term, term)

\* np.argmax(np.absolute(mag)) over the bins 0..N/2 of rfft: the first bin
\* that holds the maximum
ArgMax(sig) ==
    LET bins == 0..(Len(sig) \div 2)
    IN  CHOOSE k \in bins :
            /\ \A q \in bins : Power2(sig, q) <= Power2(sig, k)
            /\ \A q \in bins : q < k => Power2(sig, q) < Power2(sig, k)

\* spectrum(sig, rate)[2]: peakf = argmax * freq[1], freq[1] = rate/len(sig)
PeakF(sig, rate) == Frac(ArgMax(sig) * rate, Len(sig))

\* rf*60
Times60(f) == Frac(60 * f.num, f.den)

\* lines 132-134: the state before the loop
RRBegin ==
    /\ pc = "call_rr"
    /\ rr' = EmptyFrame
    /\ rr_loc' = [rr_win |-> args.rr_window_length * sample_rate.Accelerometer_X,
                  stop |-> AccLen(acc) - args.rr_window_length * sample_rate.Accelerometer_X,
                  step |-> sample_rate.ECG * args.rr_calc_every,
                  k |-> 0, i |-> -1, peak |-> -1, rf |-> NaN]
    /\ pc' = "rr_loop"
    /\ UNCHANGED <<sample_rate, inputs, hrvars, rr_log, acc_1hz, out, err, posvars>>

\* lines 136-142: one iteration of the loop, for the next i of the range
RRWindow ==
    /\ pc = "rr_loop"
    /\ rr_loc.k < RangeLen(rr_loc.stop, rr_loc.step)
    /\ LET i == rr_loc.k * rr_loc.step
           slice == AccSlice(acc, i, rr_loc.rr_win)
           windowed_acc == Windowed2(slice)
       IN  IF Len(windowed_acc) < 2 \/ i + rr_loc.rr_win >= AccLen(acc)
           THEN /\ pc' = "raised"
                /\ err' = "IndexError"
                /\ UNCHANGED <<rr, rr_loc, rr_log>>
           ELSE LET rf == PeakF(windowed_acc, sample_rate.Accelerometer_X)
                    at == AccIndex(acc, i + rr_loc.rr_win)
                IN  /\ rr' = Pad(ConcatRow(rr, at, Times60(rf)))
                    /\ rr_loc' = [rr_loc EXCEPT !.k = @ + 1, !.i = i,
                                                !.peak = ArgMax(windowed_acc), !.rf = rf]
                    /\ rr_log' = Append(rr_log, [i |-> i, n |-> Len(slice),
                                                 pos |-> i + rr_loc.rr_win, at |-> at,
                                                 sig |-> windowed_acc,
                                                 value |-> Times60(rf)])
                    /\ UNCHANGED <<pc, err>>
    /\ UNCHANGED <<sample_rate, inputs, hrvars, acc_1hz, out, posvars>>

\* line 143: the range is exhausted, return rr
RRReturn ==
    /\ pc = "rr_loop"
    /\ rr_loc.k >= RangeLen(rr_loc.stop, rr_loc.step)
    /\ pc' = "resample"
    /\ UNCHANGED <<sample_rate, inputs, hrvars, rrvars, acc_1hz, out, err, posvars>>

-----------------------------------------------------------------------------
(* main *)

\* the rows of acc.resample('S').mean(): one per second from the first sample
\* to the last, the mean of the samples of that second (sum over 1000*count)
Resampled1Hz(a) ==
    [g \in 1..(((AccLen(a) - 1) \div a.rate) + 1) |->
        LET lo == (g - 1) * a.rate
            hi == IF g * a.rate < AccLen(a) THEN g * a.rate - 1 ELSE AccLen(a) - 1
            X == [p \in lo..hi |-> AccRow(a, p).x]
            Y == [p \in lo..hi |-> AccRow(a, p).y]
            Z == [p \in lo..hi |-> AccRow(a, p).z]
        IN  [x |-> SumOver(lo..hi, X), y |-> SumOver(lo..hi, Y),
             z |-> SumOver(lo..hi, Z), den |-> 1000 * (hi - lo + 1)]]

\* the label of row g (from 1) of the 1 Hz frame
SecondLabel(g) == (g - 1) * TicksPerSec

\* line 201: acc = acc.resample('S').mean()
ResampleAcc ==
    /\ pc = "resample"
    /\ acc_1hz' = Resampled1Hz(acc)
    /\ pc' = "classify"
    /\ UNCHANGED <<sample_rate, inputs, hrvars, rrvars, out, err, posvars>>

\* line 205: pos, pos_name, theta, phi = body_pos_and_angles(acc), the whole loop
BodyPosAndAngles ==
    /\ pc = "classify"
    /\ LET res == [g \in 1..Len(acc_1hz) |-> RowResult(acc_1hz[g], SecondLabel(g))]
       IN  /\ rows' = acc_1hz
           /\ time' = [g \in 1..Len(acc_1hz) |-> res[g].time]
           /\ pos' = [g \in 1..Len(acc_1hz) |-> res[g].pos]
           /\ pos_name' = [g \in 1..Len(acc_1hz) |-> res[g].pos_name]
           /\ thetas' = [g \in 1..Len(acc_1hz) |-> res[g].theta]
           /\ phis' = [g \in 1..Len(acc_1hz) |-> res[g].phi]
    /\ pc' = "assemble"
    /\ UNCHANGED <<sample_rate, inputs, hrvars, rrvars, acc_1hz, out, err>>

\* the labels of a set in increasing order
RECURSIVE Sorted(_)
Sorted(S) == IF S = {} THEN <<>> ELSE <<SetMin(S)>> \o Sorted(S \ {SetMin(S)})

\* pd.concat([out, frame], axis=1): the outer join puts the union of the two
\* indexes in the result
OuterIndex(idx, f) == idx \cup DOMAIN f

\* the column of frame f in a table with index idx: nan where f has no row
Column(idx, f) == [t \in idx |-> IF t \in DOMAIN f THEN f[t] ELSE NaN]

\* lines 207-216: out is built on acc.index, rr and hr are joined in, and the
\* four lists are assigned as columns; a list whose length is not that of
\* the index raises ValueError at the first assignment (line 210)
Assemble ==
    /\ pc = "assemble"
    /\ LET acc_index == {SecondLabel(g) : g \in 1..Len(acc_1hz)}
           idx == OuterIndex(OuterIndex(acc_index, rr), hr)
           joined == [index |-> Sorted(idx), RR |-> Column(idx, rr), HR |-> Column(idx, hr),
                      Pos_Index |-> <<>>, Position |-> <<>>, Tilt |-> <<>>, Rotation |-> <<>>]
       IN  IF Len(pos) # Cardinality(idx)
           THEN /\ out' = joined
                /\ pc' = "raised"
                /\ err' = "ValueError"
           ELSE /\ out' = [joined EXCEPT !.Pos_Index = pos, !.Position = pos_name,
                                         !.Tilt = thetas, !.Rotation = phis]
                /\ pc' = "done"
                /\ err' = err
    /\ UNCHANGED <<sample_rate, inputs, hrvars, rrvars, acc_1hz, posvars>>

-----------------------------------------------------------------------------
(* The recordings and arguments the pipeline is run on *)

MaxEcgSecs == 4

MaxAccSecs == 35

MaxRun == 3

\* native ECG rates: at least 100 Hz, so every 10 ms bin holds a sample
EcgRates == {100, 200}

\* where the processed ECG departs from 0, and the values it takes there
SpikeAt == {10, 11, 60, 110, 160}

SpikeVals == {0, 3, 4}

EcgFrames == [rate : EcgRates, secs : 1..MaxEcgSecs, wave : [SpikeAt -> SpikeVals]]

DefaultEcgFrames ==
    [rate : EcgRates, secs : {2}, wave : {[p \in SpikeAt |-> IF p \in {10, 60} THEN 4 ELSE 0]}]

\* two postures of magnitude 1 g: flat on the back, and tilted
Flat == [x |-> 0, y |-> 0, z |-> -1000]

Tilted == [x |-> 600, y |-> 0, z |-> -800]

\* seven rows, the last r of them tilted, repeated over the recording
AccPattern(r) == [p \in 1..7 |-> IF p > 7 - r THEN Tilted ELSE Flat]

AccRates == {2, 3, 4, 6}

AccFrames == [rate : AccRates, secs : 1..MaxAccSecs, pat : {AccPattern(r) : r \in 0..MaxRun}]

DefaultAccFrames == [rate : {2}, secs : {2}, pat : {AccPattern(2)}]

HrArgs == [hr_window_length : {1, 2}, hr_calc_every : {1, 2}]

RrArgs == [rr_window_length : {1, 2, 3}, rr_calc_every : {1, 2}]

Args(h, r) == [hr_window_length |-> h.hr_window_length, hr_calc_every |-> h.hr_calc_every,
               rr_window_length |-> r.rr_window_length, rr_calc_every |-> r.rr_calc_every]

DefaultArgs == [hr_window_length |-> 1, hr_calc_every |-> 1,
                rr_window_length |-> 1, rr_calc_every |-> 1]

\* the state get_data returns into: the map holds each channel's native rate
GetData(e, a) ==
    /\ ecg = e
    /\ acc = a
    /\ sample_rate = [ECG |-> e.rate, Accelerometer_X |-> a.rate,
                      Accelerometer_Y |-> a.rate, Accelerometer_Z |-> a.rate]

Fresh ==
    /\ hr = EmptyFrame
    /\ hr_loc = [hr_win |-> 0, stop |-> 0, step |-> 0, k |-> 0, i |-> -1,
                 beats |-> <<>>, hr_mean |-> NaN]
    /\ hr_log = <<>>
    /\ rr = EmptyFrame
    /\ rr_loc = [rr_win |-> 0, stop |-> 0, step |-> 0, k |-> 0, i |-> -1,
                 peak |-> -1, rf |-> NaN]
    /\ rr_log = <<>>
    /\ acc_1hz = <<>>
    /\ out = [index |-> <<>>]
    /\ err = ""
    /\ rows = <<>>
    /\ time = <<>>
    /\ pos = <<>>
    /\ pos_name = <<>>
    /\ thetas = <<>>
    /\ phis = <<>>

\* the pipeline variables while a function is analysed on its own
Idle ==
    /\ args = DefaultArgs
    /\ \E e \in DefaultEcgFrames, a \in DefaultAccFrames : e.rate = 100 /\ GetData(e, a)
    /\ hr = EmptyFrame
    /\ hr_loc = [hr_win |-> 0, stop |-> 0, step |-> 0, k |-> 0, i |-> -1,
                 beats |-> <<>>, hr_mean |-> NaN]
    /\ hr_log = <<>>
    /\ rr = EmptyFrame
    /\ rr_loc = [rr_win |-> 0, stop |-> 0, step |-> 0, k |-> 0, i |-> -1,
                 peak |-> -1, rf |-> NaN]
    /\ rr_log = <<>>
    /\ acc_1hz = <<>>
    /\ out = [index |-> <<>>]
    /\ err = ""

\* main() after get_data: either the ECG and the HR arguments vary and the
\* accelerometer is the default one, or the other way round
Init ==
    /\ pc = "call_hr"
    /\ \/ \E e \in EcgFrames, a \in DefaultAccFrames, h \in HrArgs :
             /\ GetData(e, a)
             /\ args = Args(h, DefaultArgs)
       \/ \E e \in DefaultEcgFrames, a \in AccFrames, r \in RrArgs :
             /\ a.rate * r.rr_window_length \in FftLengths
             /\ GetData(e, a)
             /\ args = Args(DefaultArgs, r)
    /\ Fresh

Next ==
    \/ HRBegin \/ HRWindow \/ HRReturn
    \/ RRBegin \/ RRWindow \/ RRReturn
    \/ ResampleAcc \/ BodyPosAndAngles \/ Assemble

Spec == Init /\ [][Next]_vars

-----------------------------------------------------------------------------
(* The classifier on its own: body_pos_and_angles over a frame whose rows   *)
(* are read one at a time.                                                  *)

MaxRows == 2

\* sample values in thousandths of g, on and next to every threshold, and
\* beyond +-1 g (motion) where the clip acts
XGrid == {0, 710, 711, 966, 967, 1200}

YGrid == {-1200, -500, 0, 500, 501}

ZGrid == {-967, -966, 0, 1000}

Samples == [x : XGrid, y : YGrid, z : ZGrid, den : {1000}]

InitPos ==
    /\ pc = "pos_loop"
    /\ Idle
    /\ rows = <<>>
    /\ time = <<>>
    /\ pos = <<>>
    /\ pos_name = <<>>
    /\ thetas = <<>>
    /\ phis = <<>>

\* for i, _ in acc.iterrows(): ... (one row)
ClassifyRow ==
    /\ pc = "pos_loop"
    /\ Len(rows) < MaxRows
    /\ \E r \in Samples :
          LET res == RowResult(r, Len(rows))
          IN  /\ rows' = Append(rows, r)
              /\ time' = Append(time, res.time)
              /\ pos' = Append(pos, res.pos)
              /\ pos_name' = Append(pos_name, res.pos_name)
              /\ thetas' = Append(thetas, res.theta)
              /\ phis' = Append(phis, res.phi)
    /\ UNCHANGED <<pc, sample_rate, inputs, hrvars, rrvars, acc_1hz, out, err>>

\* the frame has no further row: return pos, pos_name, thetas, phis
ClassifyReturn ==
    /\ pc = "pos_loop"
    /\ pc' = "pos_done"
    /\ UNCHANGED <<sample_rate, inputs, hrvars, rrvars, acc_1hz, out, err, posvars>>

NextPos == ClassifyRow \/ ClassifyReturn

SpecPos == InitPos /\ [][NextPos]_vars

-----------------------------------------------------------------------------
(* Claims about the classifier (checked under SpecPos) *)

\* a row's axis value in thousandths of g after the clip to [-1, 1]
Clipped(v) == IF v > 1000 THEN 1000 ELSE IF v < -1000 THEN -1000 ELSE v

\* the members of the enumeration by index 0..5
PosLabels == <<"SUPINE", "PRONE", "TILT", "UPRIGHT", "LEFT_SIDE", "RIGHT_SIDE">>

\* the ordered rule of the claim, on clipped thousandths
RuleLabel(x, y, z) ==
    CASE y > 500 \/ y < -500 -> IF y < 0 THEN "LEFT_SIDE" ELSE "RIGHT_SIDE"
      [] OTHER ->
           CASE z > x /\ z > y -> "PRONE"
             [] OTHER ->
                  CASE z < -966 -> "SUPINE"
                    [] OTHER -> IF x > 966 THEN "UPRIGHT" ELSE "TILT"

\* C1: every classified sample carries the label the ordered rule gives for
\* its clipped (x, y, z): |y| > 0.5 -> LEFT_SIDE (y < 0) or RIGHT_SIDE; else
\* z > x and z > y -> PRONE; else z < -0.966 -> SUPINE; else x > 0.966 ->
\* UPRIGHT; else TILT.  The comparisons are strict: y = +-0.5 is never a side
\* position, z = -0.966 is never SUPINE by that branch, x = 0.966 is never
\* UPRIGHT; and the index is the label's index 0..5 in the enumeration.
C1_PositionRule ==
    /\ Len(pos) = Len(rows) /\ Len(pos_name) = Len(rows)
    /\ \A k \in 1..Len(rows) :
          LET x == Clipped(rows[k].x)
              y == Clipped(rows[k].y)
              z == Clipped(rows[k].z)
          IN  /\ pos_name[k] = RuleLabel(x, y, z)
              /\ pos[k] \in 0..5
              /\ PosLabels[pos[k] + 1] = pos_name[k]
              /\ (y = 500 \/ y = -500) => pos_name[k] \notin {"LEFT_SIDE", "RIGHT_SIDE"}
              /\ (z = -966 /\ pos_name[k] = "SUPINE") => FALSE
              /\ x = 966 => pos_name[k] # "UPRIGHT"

\* C1 witness: two rows classified, one on all three boundaries at once (it
\* falls through to TILT), one beyond the clip on the left side
C1_Witness ==
    /\ Len(rows) = 2
    /\ rows[1] = [x |-> 966, y |-> 500, z |-> -966, den |-> 1000]
    /\ pos_name[1] = "TILT"
    /\ rows[2].y = -1200 /\ pos_name[2] = "LEFT_SIDE" /\ pos[2] = 4

\* C2: a LEFT_SIDE or RIGHT_SIDE sample has a nan tilt; a sample with clipped
\* x > 0.71 has a nan rotation whatever y, z and the position are; a sample
\* with x = 0.71 exactly has a rotation that is a number.
C2_UndefinedAngles ==
    /\ Len(thetas) = Len(rows) /\ Len(phis) = Len(rows)
    /\ \A k \in 1..Len(rows) :
          /\ pos_name[k] \in {"LEFT_SIDE", "RIGHT_SIDE"} => IsNaN(thetas[k])
          /\ Clipped(rows[k].x) > 710 => IsNaN(phis[k])
          /\ Clipped(rows[k].x) = 710 => ~IsNaN(phis[k])

\* C2 witness: a side sample with x = 0.71 (nan tilt, rotation defined) next
\* to a non-side sample with x > 0.71 (tilt defined, nan rotation)
C2_Witness ==
    /\ Len(rows) = 2
    /\ rows[1].x = 710 /\ pos_name[1] = "RIGHT_SIDE"
    /\ IsNaN(thetas[1]) /\ ~IsNaN(phis[1])
    /\ rows[2].x = 711 /\ pos_name[2] = "PRONE"
    /\ ~IsNaN(thetas[2]) /\ IsNaN(phis[2])

-----------------------------------------------------------------------------
(* Claims about the pipeline (checked under Spec) *)

\* the start offsets i >= 0 that are multiples of s with i + win < L
WindowStarts(L, win, s) == {i \in 0..L : i % s = 0 /\ i + win < L}

HrLoopOver == pc \notin {"call_hr", "hr_loop"}

RrLoopOver == pc \notin {"call_hr", "hr_loop", "call_rr", "rr_loop"}

\* C3: a window with zero or one detected beat yields a nan HR for that
\* window, no error is raised, and the loop goes on: once the loop is over,
\* every window of the range has been computed and its row is in hr.
C3_FewBeatsGiveNaN ==
    /\ \A k \in 1..Len(hr_log) : Len(hr_log[k].beats) <= 1 => IsNaN(hr_log[k].value)
    /\ \A k \in 1..Len(hr_log) :
          hr_log[k].at \in DOMAIN hr /\ hr[hr_log[k].at] = hr_log[k].value
    /\ pc \in {"hr_loop", "call_rr"} => err = ""
    /\ HrLoopOver =>
          Len(hr_log) = Cardinality(WindowStarts(ProcessedLen(ecg), hr_loc.hr_win, hr_loc.step))

\* C3 witness: the loop is over after three windows with one, two and zero
\* beats: nan, a number, nan
C3_Witness ==
    /\ pc = "call_rr"
    /\ Len(hr_log) = 3
    /\ Len(hr_log[1].beats) = 1 /\ IsNaN(hr_log[1].value)
    /\ Len(hr_log[2].beats) = 2 /\ ~IsNaN(hr_log[2].value)
    /\ Len(hr_log[3].beats) = 0 /\ IsNaN(hr_log[3].value)

\* the window a logged row was computed from
HrWindowOf(e) == EcgSample(ecg, e.i, e.n)

\* C4: in each HR window, index j (0 <= j < length - 1) is recorded as a beat
\* exactly when value[j] < threshold <= value[j+1], the threshold being 0.75
\* times the 99th percentile of the window; the recorded indices increase.
C4_BeatRule ==
    \A k \in 1..Len(hr_log) :
        LET w == HrWindowOf(hr_log[k])
            b == hr_log[k].beats
            t == Thresh(w)
        IN  /\ {b[q] : q \in 1..Len(b)} =
                  {j \in 0..(Len(w) - 2) :
                      w[j + 1] * t.den < t.num /\ t.num <= w[j + 2] * t.den}
            /\ \A q \in 1..(Len(b) - 1) : b[q] < b[q + 1]

\* C5: consecutive windows of calculate_hr, and of calculate_rr, emit their
\* values at timestamps exactly calc_every seconds apart.
C5_EmissionSpacing ==
    /\ \A k \in 1..(Len(hr_log) - 1) :
          hr_log[k + 1].at - hr_log[k].at = args.hr_calc_every * TicksPerSec
    /\ \A k \in 1..(Len(rr_log) - 1) :
          rr_log[k + 1].at - rr_log[k].at = args.rr_calc_every * TicksPerSec

\* the rows of a log whose timestamp is at or before g
UpTo(log, g) == {k \in 1..Len(log) : log[k].at <= g}

\* the value of the latest row of the log at or before g, nan when none
LatestAt(log, g) ==
    IF UpTo(log, g) = {} THEN NaN ELSE log[SetMax(UpTo(log, g))].value

OnSecondUpTo(log, g) == {k \in UpTo(log, g) : log[k].at % TicksPerSec = 0}

\* what the padded frame of a log holds: the whole seconds from the first
\* emission (rounded down) to the last, each with the value of the latest
\* emission on a whole second at or before it
PaddedAsLogged(f, log) ==
    IF log = <<>> THEN DOMAIN f = {}
    ELSE /\ DOMAIN f = {s * TicksPerSec :
                          s \in (log[1].at \div TicksPerSec)..(log[Len(log)].at \div TicksPerSec)}
         /\ \A g \in DOMAIN f :
               f[g] = IF OnSecondUpTo(log, g) = {} THEN NaN
                      ELSE log[SetMax(OnSecondUpTo(log, g))].value

AccSeconds == {SecondLabel(g) : g \in 1..Len(acc_1hz)}

Assembled == pc \in {"done", "raised"} /\ err # "IndexError"

\* C7: the assembled table has exactly the accelerometer's 1 Hz timestamps as
\* its rows, whatever timestamps hr and rr hold; HR and RR are nan where the
\* source has no row; the classifier columns are assigned without a length
\* mismatch.
C7_TableOnAccIndex ==
    Assembled =>
        /\ {out.index[k] : k \in 1..Len(out.index)} = AccSeconds
        /\ \A t \in AccSeconds :
              /\ out.HR[t] = IF t \in DOMAIN hr THEN hr[t] ELSE NaN
              /\ out.RR[t] = IF t \in DOMAIN rr THEN rr[t] ELSE NaN
        /\ err = ""
        /\ Len(out.Pos_Index) = Len(out.index)

\* C8: the respiratory rate of a window is 60 times the frequency of the
\* largest bin among the bins 1..N/2; bin 0 is never the peak.
C8_PeakExcludesDC ==
    \A k \in 1..Len(rr_log) :
        LET sig == rr_log[k].sig
            bins == 1..(Len(sig) \div 2)
        IN  \E b \in bins :
               /\ \A q \in bins : Power2(sig, q) <= Power2(sig, b)
               /\ rr_log[k].value.num * Len(sig)
                     = 60 * b * sample_rate.Accelerometer_X * rr_log[k].value.den

\* the native rates
NativeMap == [ECG |-> ecg.rate, Accelerometer_X |-> acc.rate,
              Accelerometer_Y |-> acc.rate, Accelerometer_Z |-> acc.rate]

\* the start offsets calculate_rr would loop over, given the map m
RrPlan(m) ==
    {k * (m.ECG * args.rr_calc_every) :
        k \in 0..(RangeLen(AccLen(acc) - args.rr_window_length * m.Accelerometer_X,
                           m.ECG * args.rr_calc_every) - 1)}

LoopAsClaimed(log, win, step, L, indexLen, over) ==
    /\ \A k \in 1..Len(log) :
          /\ log[k].i = (k - 1) * step
          /\ log[k].i \in WindowStarts(L, win, step)
          /\ log[k].n = win
          /\ log[k].pos = log[k].i + win
          /\ log[k].pos < indexLen
    /\ Len(log) <= Cardinality(WindowStarts(L, win, step))
    /\ over => {log[k].i : k \in 1..Len(log)} = WindowStarts(L, win, step)
    /\ (over /\ L <= win) => log = <<>>
    /\ \A k \in 1..Len(log) : log[k].i + win # L

\* C10: with L the length of the windowed series, win the window size and
\* s > 0 the stride, the loop emits a value for start offset i exactly when i
\* is a multiple of s with i + win < L; each window holds win samples; the
\* lookup at position i + win is inside the timestamp index; L <= win emits
\* nothing; a window with i + win = L is not emitted; and the loop ends: no
\* exception is raised and the iterations are counted by the emitted rows,
\* which never exceed the number of such offsets.
C10_WindowOffsets ==
    /\ err # "IndexError"
    /\ pc # "call_hr" =>
          /\ hr_loc.step > 0
          /\ LoopAsClaimed(hr_log, hr_loc.hr_win, hr_loc.step,
                           ProcessedLen(ecg), ResampledLen(ecg), HrLoopOver)
    /\ pc \notin {"call_hr", "hr_loop", "call_rr"} =>
          /\ rr_loc.step > 0
          /\ LoopAsClaimed(rr_log, rr_loc.rr_win, rr_loc.step,
                           AccLen(acc), AccLen(acc), RrLoopOver)
    /\ pc = "hr_loop" => Len(hr_log) = hr_loc.k
    /\ pc = "rr_loop" => Len(rr_log) = rr_loc.k

\* C10 witness: calculate_rr is over after one window, on a recording where a
\* second window would fit exactly (i + win = L) and is not emitted
C10_Witness ==
    /\ pc = "resample"
    /\ Len(rr_log) = 1
    /\ AccLen(acc) = rr_loc.step + rr_loc.rr_win
    /\ Len(hr_log) = 1

=============================================================================
